---- MODULE Spec2Model ----
(***************************************************************************)
(* Model of configgen (src/main.rs): a command-line generator of Docker    *)
(* configuration artifacts.  main() either parses a subcommand and calls   *)
(* Commands::execute, or runs interactive_cli().                           *)
(*                                                                         *)
(* Text that the program splits or trims is a sequence of atoms: an atom   *)
(* is "," (the delimiter), " " (whitespace) or a word (a run of other      *)
(* characters).  Text that is only copied or compared is a TLA+ string.    *)
(* A path is the sequence of its components.                               *)
(***************************************************************************)
EXTENDS Integers, Sequences, FiniteSets, TLC

VARIABLES pc, mode, command, choice, args, dockerfile_spec, service_specs,
          networks_map, compose_spec, devcontainer_spec, fs, written,
          rendered, result, failed_at, split_iter, packages_input, output,
          rendered_text, bake_args, bake_spec, targets, bake_answers,
          env_inputs, menu

vars == <<pc, mode, command, choice, args, dockerfile_spec, service_specs,
          networks_map, compose_spec, devcontainer_spec, fs, written,
          rendered, result, failed_at, split_iter, packages_input, output,
          rendered_text, bake_args, bake_spec, targets, bake_answers,
          env_inputs, menu>>

\* the state of a Bake request
bakeVars == <<bake_args, bake_spec, targets, bake_answers>>

\* the answers of an interactive session that later steps read
sessionVars == <<env_inputs, menu>>

-----------------------------------------------------------------------------
(* Bounds *)

\* longest --services text, in atoms
MaxSvcLen == 3
\* longest line typed at the packages prompt, in atoms
MaxPkgLen == 3
\* longest list of a service drawn for the renderer
MaxListLen == 1
\* most services in a descriptor drawn for the renderer
MaxRenderServices == 1
\* most targets answered in the interactive Bake loop
MaxTargets == 1
\* longest line typed at the environment prompt, in atoms
MaxEnvLen == 2
\* most services answered in the interactive Compose loop
MaxInteractiveServices == 1
\* most answers to "Select service:" in the Complete Environment session
MaxSelections == 2

-----------------------------------------------------------------------------
(* Option<T> *)

None == [some |-> FALSE, v |-> <<>>]
Some(x) == [some |-> TRUE, v |-> x]

-----------------------------------------------------------------------------
(* Text *)

Comma == ","
Space == " "

\* all texts of at most n atoms over an alphabet
TextsUpTo(alphabet, n) == UNION {[1..k -> alphabet] : k \in 0..n}

\* index of the first delimiter in s, 0 if there is none
RECURSIVE FirstIndexFrom(_, _, _)
FirstIndexFrom(s, d, i) ==
    IF i > Len(s) THEN 0
    ELSE IF s[i] = d THEN i
    ELSE FirstIndexFrom(s, d, i + 1)

\* str::split(','): the pieces between delimiters, empty pieces included;
\* the empty text gives one empty piece
RECURSIVE Split(_, _)
Split(s, d) ==
    LET i == FirstIndexFrom(s, d, 1)
    IN  IF i = 0 THEN <<s>>
        ELSE <<SubSeq(s, 1, i - 1)>> \o Split(SubSeq(s, i + 1, Len(s)), d)

RECURSIVE TrimStart(_)
TrimStart(s) ==
    IF s # <<>> /\ Head(s) = Space THEN TrimStart(Tail(s)) ELSE s

RECURSIVE TrimEnd(_)
TrimEnd(s) ==
    IF s # <<>> /\ s[Len(s)] = Space THEN TrimEnd(SubSeq(s, 1, Len(s) - 1)) ELSE s

\* str::trim()
Trim(s) == TrimEnd(TrimStart(s))

\* text.split(',').map(|s| s.trim().to_string()).collect()
SplitTrimCollect(text) ==
    LET pieces == Split(text, Comma)
    IN  [i \in 1..Len(pieces) |-> Trim(pieces[i])]

\* a word as a text
Word(w) == <<w>>

-----------------------------------------------------------------------------
(* Paths *)

\* Path::new(dir).join(file) for a relative one-component file
Join(dir, file) == dir \o <<file>>

\* directory holding a file
Parent(path) == SubSeq(path, 1, Len(path) - 1)

\* lexical resolution: "." components name the directory they stand in
RECURSIVE Normalize(_)
Normalize(path) ==
    IF path = <<>> THEN <<>>
    ELSE IF Head(path) = "." THEN Normalize(Tail(path))
    ELSE <<Head(path)>> \o Normalize(Tail(path))

\* the file a path written inside a descriptor designates, relative to the
\* directory of the descriptor
Resolve(descriptor_path, rel) == Normalize(Parent(descriptor_path) \o rel)

-----------------------------------------------------------------------------
(* Sequence helpers *)

Range(s) == {s[i] : i \in 1..Len(s)}

\* number of positions of s holding x
Count(s, x) == Cardinality({i \in 1..Len(s) : s[i] = x})

RECURSIVE Flatten(_)
Flatten(ss) == IF ss = <<>> THEN <<>> ELSE Head(ss) \o Flatten(Tail(ss))

-----------------------------------------------------------------------------
(* Templates: the rendered text is the sequence of its lines *)

Line(kind, text) == [kind |-> kind, text |-> text]

\* DOCKERFILE_TEMPLATE
RenderDockerfile(spec) ==
    <<Line("comment", "# Generated Dockerfile"),
      Line("FROM", spec.base_image),
      Line("LABEL", spec.maintainer),
      Line("RUN", "apt-get update && apt-get install -y")>>
    \o [i \in 1..Len(spec.packages) |-> Line("package", spec.packages[i])]
    \o <<Line("WORKDIR", spec.workdir),
         Line("ENTRYPOINT", spec.entrypoint)>>

\* DEVCONTAINER_TEMPLATE: one JSON object
RenderDevcontainer(spec) ==
    <<Line("json",
           [name |-> spec.name,
            build_dockerfile |-> spec.dockerfile_path,
            remoteUser |-> spec.remote_user,
            extensions |-> spec.customizations.vscode_extensions,
            settings |-> spec.customizations.settings])>>

\* the block of one service in DOCKER_COMPOSE_TEMPLATE
RenderService_AlwaysDependsOn(service) ==
    <<Line("service", service.name),
      Line("image", service.image),
      Line("ports_header", "ports:")>>
    \o [i \in 1..Len(service.ports) |-> Line("port_item", service.ports[i])]
    \o <<Line("depends_on_header", "depends_on:")>>
    \o [i \in 1..Len(service.depends_on) |->
            Line("depends_on_item", service.depends_on[i])]
    \o (IF Len(service.environment) > 0
        THEN <<Line("environment_header", "environment:")>>
             \o [i \in 1..Len(service.environment) |->
                    Line("environment_item", service.environment[i])]
        ELSE <<>>)
    \o <<Line("volumes_header", "volumes:")>>
    \o [i \in 1..Len(service.volumes) |-> Line("volume_item", service.volumes[i])]

RenderService(service) ==
    <<Line("service", service.name),
      Line("image", service.image),
      Line("ports_header", "ports:")>>
    \o [i \in 1..Len(service.ports) |-> Line("port_item", service.ports[i])]
    \o (IF Len(service.depends_on) > 0
        THEN <<Line("depends_on_header", "depends_on:")>>
             \o [i \in 1..Len(service.depends_on) |->
                    Line("depends_on_item", service.depends_on[i])]
        ELSE <<>>)
    \o (IF Len(service.environment) > 0
        THEN <<Line("environment_header", "environment:")>>
             \o [i \in 1..Len(service.environment) |->
                    Line("environment_item", service.environment[i])]
        ELSE <<>>)
    \o <<Line("volumes_header", "volumes:")>>
    \o [i \in 1..Len(service.volumes) |-> Line("volume_item", service.volumes[i])]

\* network names in the order the serialized map lists them
NetworkOrder == <<"app_network", "backend">>

RenderNetworks(networks) ==
    IF Cardinality(DOMAIN networks) > 0
    THEN <<Line("networks_header", "networks:")>>
         \o Flatten([i \in 1..Len(NetworkOrder) |->
                IF NetworkOrder[i] \in DOMAIN networks
                THEN <<Line("network_item",
                            [name |-> NetworkOrder[i],
                             driver |-> networks[NetworkOrder[i]].driver])>>
                ELSE <<>>])
    ELSE <<>>

\* DOCKER_COMPOSE_TEMPLATE
RenderCompose(spec) ==
    <<Line("version", "3.8"), Line("services_header", "services:")>>
    \o Flatten([i \in 1..Len(spec.services) |-> RenderService(spec.services[i])])
    \o RenderNetworks(spec.networks)

\* DOCKER_BAKE_TEMPLATE
RenderBake(spec) ==
    <<Line("group", spec.group_name), Line("targets_header", "targets = [")>>
    \o [i \in 1..Len(spec.targets) |-> Line("target_ref", spec.targets[i].name)]
    \o Flatten([i \in 1..Len(spec.targets) |->
            <<Line("target", spec.targets[i].name),
              Line("context", spec.targets[i].context),
              Line("dockerfile", spec.targets[i].dockerfile),
              Line("tags_header", "tags = [")>>
            \o [j \in 1..Len(spec.targets[i].tags) |->
                    Line("tag_item", spec.targets[i].tags[j])]])

-----------------------------------------------------------------------------
(* The file system: a function from the paths that exist to their entries *)

FileEntry(contents, complete) ==
    [kind |-> "file", contents |-> contents, complete |-> complete]

DirEntry == [kind |-> "dir", contents |-> <<>>, complete |-> TRUE]

\* files with path bound to entry
Put(files, path, entry) ==
    [p \in DOMAIN files \cup {path} |-> IF p = path THEN entry ELSE files[p]]

IoOutcomes == {"ok", "fails"}

\* std::fs::create_dir_all, under an outcome of the operating system
CreateDirAll(files, path, outcome) ==
    IF outcome = "ok"
    THEN [ok |-> TRUE, fs |-> Put(files, path, DirEntry)]
    ELSE [ok |-> FALSE, fs |-> files]

WriteOutcomes == {"ok", "create_fails", "write_all_fails"}

\* write_to_file: File::create fails, or write_all fails on the created
\* (truncated) file, or the whole text is written and the path is printed
WriteToFile(files, log, path, contents, outcome) ==
    CASE outcome = "create_fails" ->
            [ok |-> FALSE, fs |-> files, written |-> log]
      [] outcome = "write_all_fails" ->
            [ok |-> FALSE, fs |-> Put(files, path, FileEntry(<<>>, FALSE)),
             written |-> log]
      [] outcome = "ok" ->
            [ok |-> TRUE, fs |-> Put(files, path, FileEntry(contents, TRUE)),
             written |-> Append(log, path)]

\* the ? operator: an Err returns from the function, an Ok continues
Propagate_Ignore(ok, next) == next

Propagate(ok, next) == IF ok THEN next ELSE "error"

-----------------------------------------------------------------------------
(* Commands::Init: the defaulting tables and the composition steps *)

\* match language.as_str() { ... } -> (base_image, packages)
LanguageRow(language) ==
    CASE language = "python" ->
            [base_image |-> "python:3.12-slim",
             packages |-> <<"python3-pip", Comma, "python3-dev", Comma,
                            "build-essential">>]
      [] language = "node" ->
            [base_image |-> "node:22-slim", packages |-> <<"npm">>]
      [] language = "rust" ->
            [base_image |-> "rust:1.83-slim", packages |-> <<"cargo">>]
      [] OTHER ->
            [base_image |-> "ubuntu:23.10", packages |-> <<"curl", Comma, "git">>]

\* vscode_extensions: match language.as_str() { ... }
LanguageExtensions(language) ==
    CASE language = "python" -> <<"ms-python.python", "ms-python.vscode-pylance">>
      [] language = "node" -> <<"dbaeumer.vscode-eslint", "esbenp.prettier-vscode">>
      [] language = "rust" -> <<"rust-lang.rust-analyzer", "serayuzgur.crates">>
      [] OTHER -> <<>>

\* settings: json!({...})
DefaultSettings ==
    [editor_formatOnSave |-> TRUE, terminal_integrated_shell_linux |-> "/bin/bash"]

InitDockerfileSpec(language) ==
    [base_image |-> LanguageRow(language).base_image,
     maintainer |-> "Generated <generated@example.com>",
     packages |-> SplitTrimCollect(LanguageRow(language).packages),
     workdir |-> "/app",
     entrypoint |-> "/bin/bash"]

DockerfileName == "Dockerfile"

ComposeName_Bake == "docker-bake.hcl"

ComposeName == "docker-compose.yml"

DevcontainerName == "devcontainer.json"

\* dockerfile_path of the dev-container descriptor built by Init
InitDockerfilePath_Nested == <<".", "docker", "Dockerfile">>

InitDockerfilePath == <<".", "Dockerfile">>

InitDevContainerSpec(name, language) ==
    [name |-> name \o " Dev Container",
     dockerfile_path |-> InitDockerfilePath,
     remote_user |-> "vscode",
     customizations |-> [vscode_extensions |-> LanguageExtensions(language),
                         settings |-> DefaultSettings]]

Pair(k, v) == <<k, v>>

ServiceSpec(name, image, ports, depends_on, environment, volumes) ==
    [name |-> name, image |-> image, ports |-> ports,
     depends_on |-> depends_on, environment |-> environment,
     volumes |-> volumes]

\* the main app service
MainService(name) ==
    ServiceSpec(name, name \o ":latest", <<"8000:8000">>, <<>>, <<>>, <<"./:/app">>)

\* match db.as_str() { ... } -> (db_image, db_port, db_env)
DatabaseRow_MysqlAsPostgres(db) ==
    CASE db = "mongodb" ->
            [image |-> "mongo:latest", port |-> "27017:27017",
             env |-> <<Pair("MONGO_INITDB_ROOT_USERNAME", "admin"),
                       Pair("MONGO_INITDB_ROOT_PASSWORD", "password")>>]
      [] OTHER ->
            [image |-> "postgres:latest", port |-> "5432:5432",
             env |-> <<Pair("POSTGRES_USER", "admin"),
                       Pair("POSTGRES_PASSWORD", "password")>>]

DatabaseRow(db) ==
    CASE db = "postgres" ->
            [image |-> "postgres:latest", port |-> "5432:5432",
             env |-> <<Pair("POSTGRES_USER", "admin"),
                       Pair("POSTGRES_PASSWORD", "password")>>]
      [] db = "mysql" ->
            [image |-> "mysql:latest", port |-> "3306:3306",
             env |-> <<Pair("MYSQL_ROOT_PASSWORD", "password"),
                       Pair("MYSQL_DATABASE", "app")>>]
      [] db = "mongodb" ->
            [image |-> "mongo:latest", port |-> "27017:27017",
             env |-> <<Pair("MONGO_INITDB_ROOT_USERNAME", "admin"),
                       Pair("MONGO_INITDB_ROOT_PASSWORD", "password")>>]
      [] OTHER ->
            [image |-> "postgres:latest", port |-> "5432:5432",
             env |-> <<Pair("POSTGRES_USER", "admin"),
                       Pair("POSTGRES_PASSWORD", "password")>>]

\* service_specs.push(service)
Push(specs, service) == Append(specs, service)

\* service_specs[0].depends_on.push(dep)
PushDependsOn(specs, dep) ==
    [specs EXCEPT ![1].depends_on = Append(@, dep)]

\* if let Some(db) = database { ... }
AddDatabase_TwoEdges(specs, database) ==
    IF database.some
    THEN PushDependsOn(PushDependsOn(
            Push(specs,
                 ServiceSpec("db", DatabaseRow(database.v).image,
                             <<DatabaseRow(database.v).port>>, <<>>,
                             DatabaseRow(database.v).env,
                             <<"./data:/var/lib/postgresql/data">>)),
            "db"), "db")
    ELSE specs

AddDatabase(specs, database) ==
    IF database.some
    THEN PushDependsOn(
            Push(specs,
                 ServiceSpec("db", DatabaseRow(database.v).image,
                             <<DatabaseRow(database.v).port>>, <<>>,
                             DatabaseRow(database.v).env,
                             <<"./data:/var/lib/postgresql/data">>)),
            "db")
    ELSE specs

\* one iteration of the loop over additional_services.split(',')
AddService_EdgeOnly(specs, piece) ==
    LET service == Trim(piece)
    IN  CASE service = Word("redis") ->
                PushDependsOn(
                    Push(specs,
                         ServiceSpec("redis", "redis:latest", <<"6379:6379">>,
                                     <<>>, <<>>, <<"./redis-data:/data">>)),
                    "redis")
          [] service = Word("elasticsearch") ->
                PushDependsOn(specs, "elasticsearch")
          [] OTHER -> specs

AddService_UnknownPushed(specs, piece) ==
    LET service == Trim(piece)
    IN  CASE service = Word("redis") ->
                PushDependsOn(
                    Push(specs,
                         ServiceSpec("redis", "redis:latest", <<"6379:6379">>,
                                     <<>>, <<>>, <<"./redis-data:/data">>)),
                    "redis")
          [] service = Word("elasticsearch") ->
                PushDependsOn(
                    Push(specs,
                         ServiceSpec("elasticsearch", "elasticsearch:8.7.0",
                                     <<"9200:9200">>, <<>>,
                                     <<Pair("discovery.type", "single-node"),
                                       Pair("ES_JAVA_OPTS", "-Xms512m -Xmx512m")>>,
                                     <<"./es-data:/usr/share/elasticsearch/data">>)),
                    "elasticsearch")
          [] OTHER ->
                PushDependsOn(
                    Push(specs,
                         ServiceSpec("custom", "custom:latest", <<>>, <<>>, <<>>,
                                     <<>>)),
                    "custom")

AddService(specs, piece) ==
    LET service == Trim(piece)
    IN  CASE service = Word("redis") ->
                PushDependsOn(
                    Push(specs,
                         ServiceSpec("redis", "redis:latest", <<"6379:6379">>,
                                     <<>>, <<>>, <<"./redis-data:/data">>)),
                    "redis")
          [] service = Word("elasticsearch") ->
                PushDependsOn(
                    Push(specs,
                         ServiceSpec("elasticsearch", "elasticsearch:8.7.0",
                                     <<"9200:9200">>, <<>>,
                                     <<Pair("discovery.type", "single-node"),
                                       Pair("ES_JAVA_OPTS", "-Xms512m -Xmx512m")>>,
                                     <<"./es-data:/usr/share/elasticsearch/data">>)),
                    "elasticsearch")
          [] OTHER -> specs

\* networks_map after inserting app_network
InitNetworks == [n \in {"app_network"} |-> [driver |-> "bridge"]]

NoNetworks == [n \in {} |-> [driver |-> "bridge"]]

-----------------------------------------------------------------------------
(* Inputs *)

Subcommands == {"Dockerfile", "Compose", "Bake", "Devcontainer", "Init"}

ProjectNames == {"myproject", "db", "redis"}

Languages == {"python", "node", "rust", "other"}

Databases == {None, Some("postgres"), Some("mysql"), Some("mongodb"), Some("sqlite")}

ServiceAtoms == {"redis", "elasticsearch", "kafka", Comma}

\* --services texts with whitespace around the names
SpacedServiceTexts ==
    {<<"redis", Comma, Space, "elasticsearch">>, <<Space, "redis", Space>>,
     <<Space>>}

ServiceTexts ==
    {None} \cup {Some(t) : t \in TextsUpTo(ServiceAtoms, MaxSvcLen)
                                  \cup SpacedServiceTexts}

OutputDirs == {<<".">>, <<"out", "env">>}

NoArgs ==
    [name |-> "", language |-> "", database |-> None, services |-> None,
     output_dir |-> <<>>]

InitArgs ==
    [name : ProjectNames, language : Languages, database : Databases,
     services : ServiceTexts, output_dir : OutputDirs]

NoFiles == [p \in {} |-> DirEntry]

NoBakeArgs == [targets |-> None, contexts |-> None, dockerfiles |-> None, tags |-> None]

NoMenu == [language_idx |-> -1, db_idx |-> -1]

-----------------------------------------------------------------------------
(* main *)

StartState ==
    /\ mode = "none"
    /\ command = "none"
    /\ choice = -1
    /\ args = NoArgs
    /\ dockerfile_spec = None
    /\ service_specs = <<>>
    /\ networks_map = NoNetworks
    /\ compose_spec = None
    /\ devcontainer_spec = None
    /\ fs = NoFiles
    /\ written = <<>>
    /\ rendered = <<>>
    /\ result = "running"
    /\ failed_at = "none"
    /\ split_iter = <<>>
    /\ packages_input = <<>>
    /\ output = <<>>
    /\ rendered_text = <<>>
    /\ bake_args = NoBakeArgs
    /\ bake_spec = None
    /\ targets = <<>>
    /\ bake_answers = <<>>
    /\ env_inputs = <<>>
    /\ menu = NoMenu

Init ==
    /\ pc = "main"
    /\ StartState

\* main with arguments: Cli::parse() yields a subcommand other than Init
ParseOther ==
    /\ pc = "main"
    /\ \E cmd \in Subcommands \ {"Init", "Bake"} :
        /\ mode' = "args"
        /\ command' = cmd
        /\ pc' = "execute"
    /\ UNCHANGED <<choice, args, dockerfile_spec, service_specs, networks_map,
                   compose_spec, devcontainer_spec, fs, written, rendered,
                   result, failed_at, split_iter, packages_input, output,
                   rendered_text,
                   bakeVars, sessionVars>>

\* the flags of Commands::Bake
BakeArgs ==
    [targets : {None, Some(<<"a", Comma, "b">>), Some(<<"a", Comma, "b", Comma, "c">>)},
     contexts : {None, Some(<<"x", Comma, "y">>)},
     dockerfiles : {None, Some(<<"a.Dockerfile">>)},
     tags : {None, Some(<<"a:v1">>)}]

\* main with arguments: Cli::parse() yields Commands::Bake
ParseBake ==
    /\ pc = "main"
    /\ \E b \in BakeArgs :
        /\ mode' = "args"
        /\ command' = "Bake"
        /\ bake_args' = b
        /\ pc' = "execute"
    /\ UNCHANGED <<choice, args, dockerfile_spec, service_specs, networks_map,
                   compose_spec, devcontainer_spec, fs, written, rendered,
                   result, failed_at, split_iter, packages_input, output,
                   rendered_text, bake_spec, targets, bake_answers,
                   sessionVars>>

\* main with arguments: Cli::parse() yields Commands::Init
ParseInit ==
    /\ pc = "main"
    /\ \E a \in InitArgs :
        /\ mode' = "args"
        /\ command' = "Init"
        /\ args' = a
        /\ pc' = "execute"
    /\ UNCHANGED <<choice, dockerfile_spec, service_specs, networks_map,
                   compose_spec, devcontainer_spec, fs, written, rendered,
                   result, failed_at, split_iter, packages_input, output,
                   rendered_text,
                   bakeVars, sessionVars>>

\* Commands::execute, the arm  _ => unreachable!()
ExecuteUnreachable ==
    /\ pc = "execute"
    /\ command # "Init"
    /\ pc' = "panicked"
    /\ result' = "panic"
    /\ UNCHANGED <<mode, command, choice, args, dockerfile_spec, service_specs,
                   networks_map, compose_spec, devcontainer_spec, fs, written,
                   rendered, failed_at, split_iter, packages_input, output,
                   rendered_text,
                   bakeVars, sessionVars>>

\* an Err leaves execute and main: the step it came from is recorded
Outcome(ok, step, next) ==
    /\ pc' = Propagate(ok, next)
    /\ result' = IF Propagate(ok, next) = "error" THEN "err"
                 ELSE IF Propagate(ok, next) = "done" THEN "ok" ELSE result
    /\ failed_at' = IF ok THEN failed_at
                    ELSE IF failed_at = "none" THEN step ELSE failed_at

\* Init: std::fs::create_dir_all(&output_dir)?
InitCreateDir ==
    /\ pc = "execute"
    /\ command = "Init"
    /\ \E o \in IoOutcomes :
        LET r == CreateDirAll(fs, args.output_dir, o)
        IN  /\ fs' = r.fs
            /\ Outcome(r.ok, "create_dir", "init_dockerfile")
    /\ UNCHANGED <<mode, command, choice, args, dockerfile_spec, service_specs,
                   networks_map, compose_spec, devcontainer_spec, written,
                   rendered, split_iter, packages_input, output,
                   rendered_text,
                   bakeVars, sessionVars>>

\* Init, step 1: build, render and write the Dockerfile
InitDockerfile ==
    /\ pc = "init_dockerfile"
    /\ LET spec == InitDockerfileSpec(args.language)
       IN  /\ dockerfile_spec' = Some(spec)
           /\ rendered' = Append(rendered, DockerfileName)
           /\ \E o \in WriteOutcomes :
                LET r == WriteToFile(fs, written,
                                     Join(args.output_dir, DockerfileName),
                                     RenderDockerfile(spec), o)
                IN  /\ fs' = r.fs
                    /\ written' = r.written
                    /\ Outcome(r.ok, DockerfileName, "init_services")
    /\ UNCHANGED <<mode, command, choice, args, service_specs, networks_map,
                   compose_spec, devcontainer_spec, split_iter,
                   packages_input, output,
                   rendered_text,
                   bakeVars, sessionVars>>

\* Init, step 2: the network, the main app service and the database
InitServices ==
    /\ pc = "init_services"
    /\ networks_map' = InitNetworks
    /\ service_specs' = AddDatabase(<<MainService(args.name)>>, args.database)
    /\ split_iter' = IF args.services.some
                     THEN Split(args.services.v, Comma) ELSE <<>>
    /\ pc' = "init_extra"
    /\ UNCHANGED <<mode, command, choice, args, dockerfile_spec, compose_spec,
                   devcontainer_spec, fs, written, rendered, result,
                   failed_at, packages_input, output,
                   rendered_text,
                   bakeVars, sessionVars>>

\* Init, step 2: one iteration of the loop over the additional services
InitExtraService ==
    /\ pc = "init_extra"
    /\ split_iter # <<>>
    /\ service_specs' = AddService(service_specs, Head(split_iter))
    /\ split_iter' = Tail(split_iter)
    /\ UNCHANGED <<pc, mode, command, choice, args, dockerfile_spec, networks_map,
                   compose_spec, devcontainer_spec, fs, written, rendered,
                   result, failed_at, packages_input, output,
                   rendered_text,
                   bakeVars, sessionVars>>

\* Init, step 2: render and write docker-compose.yml
InitComposeWrite ==
    /\ pc = "init_extra"
    /\ split_iter = <<>>
    /\ LET spec == [services |-> service_specs, networks |-> networks_map]
       IN  /\ compose_spec' = Some(spec)
           /\ rendered' = Append(rendered, ComposeName)
           /\ \E o \in WriteOutcomes :
                LET r == WriteToFile(fs, written,
                                     Join(args.output_dir, ComposeName),
                                     RenderCompose(spec), o)
                IN  /\ fs' = r.fs
                    /\ written' = r.written
                    /\ Outcome(r.ok, ComposeName, "init_devcontainer")
    /\ UNCHANGED <<mode, command, choice, args, dockerfile_spec, service_specs,
                   networks_map, devcontainer_spec, split_iter,
                   packages_input, output,
                   rendered_text,
                   bakeVars, sessionVars>>

\* Init, step 3: build, render and write devcontainer.json; Ok(())
InitDevcontainer ==
    /\ pc = "init_devcontainer"
    /\ LET spec == InitDevContainerSpec(args.name, args.language)
       IN  /\ devcontainer_spec' = Some(spec)
           /\ rendered' = Append(rendered, DevcontainerName)
           /\ \E o \in WriteOutcomes :
                LET r == WriteToFile(fs, written,
                                     Join(args.output_dir, DevcontainerName),
                                     RenderDevcontainer(spec), o)
                IN  /\ fs' = r.fs
                    /\ written' = r.written
                    /\ Outcome(r.ok, DevcontainerName, "done")
    /\ UNCHANGED <<mode, command, choice, args, dockerfile_spec, service_specs,
                   networks_map, compose_spec, split_iter, packages_input,
                   output,
                   rendered_text,
                   bakeVars, sessionVars>>

-----------------------------------------------------------------------------
(* interactive_cli *)

PackageAtoms == {"curl", "git", Comma, Space}

\* the line of the scenario: curl, git,, nginx
ScenarioPackages == <<"curl", Comma, Space, "git", Comma, Comma, Space, "nginx">>

PackageLines == TextsUpTo(PackageAtoms, MaxPkgLen) \cup {ScenarioPackages}

\* prompt(): the line read from stdin, trimmed
Prompt(line) == Trim(line)

\* if answer.is_empty() { default } else { answer }
OrDefault(answer, default) == IF answer = "" THEN default ELSE answer

\* the Dockerfile descriptor built from the answers
InteractiveDockerfileSpec(base_image, maintainer, packages, workdir, entrypoint) ==
    [base_image |-> OrDefault(base_image, "ubuntu:22.04"),
     maintainer |-> OrDefault(maintainer, "Generated <generated@example.com>"),
     packages |-> SplitTrimCollect(IF packages = <<>>
                                   THEN <<"curl", Comma, "git">> ELSE packages),
     workdir |-> OrDefault(workdir, "/app"),
     entrypoint |-> OrDefault(entrypoint, "/bin/bash")]

\* main without arguments
MainInteractive ==
    /\ pc = "main"
    /\ mode' = "interactive"
    /\ pc' = "menu"
    /\ UNCHANGED <<command, choice, args, dockerfile_spec, service_specs,
                   networks_map, compose_spec, devcontainer_spec, fs, written,
                   rendered, result, failed_at, split_iter, packages_input,
                   output,
                   rendered_text,
                   bakeVars, sessionVars>>

\* select_option returns 0: the answers to the Dockerfile prompts
DockerfilePrompts ==
    /\ pc = "menu"
    /\ choice' = 0
    /\ \E base_image \in {"", "debian:12"}, maintainer \in {"", "dev@example.com"},
          line \in PackageLines, workdir \in {"", "/srv"},
          entrypoint \in {"", "/bin/sh"}, out \in {"", "Dockerfile.dev"} :
        /\ packages_input' = line
        /\ dockerfile_spec' = Some(InteractiveDockerfileSpec(
                base_image, maintainer, Prompt(line), workdir, entrypoint))
        /\ output' = <<OrDefault(out, "Dockerfile")>>
    /\ pc' = "dockerfile_write"
    /\ UNCHANGED <<mode, command, args, service_specs, networks_map,
                   compose_spec, devcontainer_spec, fs, written, rendered,
                   result, failed_at, split_iter, rendered_text,
                   bakeVars, sessionVars>>

\* render the Dockerfile and write it; Ok(())
DockerfileWrite ==
    /\ pc = "dockerfile_write"
    /\ rendered' = Append(rendered, DockerfileName)
    /\ \E o \in WriteOutcomes :
        LET r == WriteToFile(fs, written, output,
                             RenderDockerfile(dockerfile_spec.v), o)
        IN  /\ fs' = r.fs
            /\ written' = r.written
            /\ Outcome(r.ok, DockerfileName, "done")
    /\ UNCHANGED <<mode, command, choice, args, dockerfile_spec, service_specs,
                   networks_map, compose_spec, devcontainer_spec, split_iter,
                   packages_input, output,
                   rendered_text,
                   bakeVars, sessionVars>>

BakeName == "docker-bake.hcl"

\* format!("{}:{}", name, tag)
TagOf(name, tag) == name \o ":" \o tag

\* one target of the interactive Bake loop, built from its four answers
BakeTarget(name, context, dockerfile, tag) ==
    [name |-> name,
     context |-> OrDefault(context, "./"),
     dockerfile |-> OrDefault(dockerfile, "./Dockerfile"),
     tags |-> <<TagOf(name, OrDefault(tag, "latest"))>>]

BakeAnswers ==
    [name : {"api", "worker"}, context : {"", "./api"},
     dockerfile : {"", "./api/Dockerfile"}, tag : {"", "v1"}]

\* select_option returns 3: one iteration of the target loop, ended by the
\* answer to "Add another target?"
BakeAddTarget ==
    /\ pc \in {"menu", "bake_loop"}
    /\ Len(targets) < MaxTargets
    /\ choice' = 3
    /\ \E a \in BakeAnswers, again \in BOOLEAN :
        /\ targets' = Append(targets,
                             BakeTarget(a.name, a.context, a.dockerfile, a.tag))
        /\ bake_answers' = Append(bake_answers, a)
        /\ pc' = IF again /\ Len(targets) + 1 < MaxTargets
                 THEN "bake_loop" ELSE "bake_finish"
    /\ UNCHANGED <<mode, command, args, dockerfile_spec, service_specs,
                   networks_map, compose_spec, devcontainer_spec, fs, written,
                   rendered, result, failed_at, split_iter, packages_input,
                   output, rendered_text, bake_args, bake_spec, sessionVars>>

\* the group and output prompts; render docker-bake.hcl and write it; Ok(())
BakeWrite ==
    /\ pc = "bake_finish"
    /\ \E group \in {"", "release"}, out \in {"", "bake.hcl"}, o \in WriteOutcomes :
        LET spec == [group_name |-> OrDefault(group, "default"),
                     targets |-> targets]
            r == WriteToFile(fs, written, <<OrDefault(out, BakeName)>>,
                             RenderBake(spec), o)
        IN  /\ bake_spec' = Some(spec)
            /\ output' = <<OrDefault(out, BakeName)>>
            /\ rendered' = Append(rendered, BakeName)
            /\ fs' = r.fs
            /\ written' = r.written
            /\ Outcome(r.ok, BakeName, "done")
    /\ UNCHANGED <<mode, command, choice, args, dockerfile_spec, service_specs,
                   networks_map, compose_spec, devcontainer_spec, split_iter,
                   packages_input, rendered_text, bake_args, targets,
                   bake_answers, sessionVars>>

Equals == "="

\* index of the last delimiter in s, 0 if there is none
RECURSIVE LastIndexFrom(_, _, _)
LastIndexFrom(s, d, i) ==
    IF i < 1 THEN 0
    ELSE IF s[i] = d THEN i
    ELSE LastIndexFrom(s, d, i - 1)

\* str::split_once('='): the text before and the text after one delimiter
SplitOnce_Last(piece) ==
    LET i == LastIndexFrom(piece, Equals, Len(piece))
    IN  IF i = 0 THEN None
        ELSE Some(<<SubSeq(piece, 1, i - 1), SubSeq(piece, i + 1, Len(piece))>>)

SplitOnce(piece) ==
    LET i == FirstIndexFrom(piece, Equals, 1)
    IN  IF i = 0 THEN None
        ELSE Some(<<SubSeq(piece, 1, i - 1), SubSeq(piece, i + 1, Len(piece))>>)

\* filter_map(|pair| pair.split_once('=').map(|(k, v)| (k.trim(), v.trim())))
RECURSIVE FilterMapPairs(_)
FilterMapPairs(pieces) ==
    IF pieces = <<>> THEN <<>>
    ELSE LET kv == SplitOnce(Head(pieces))
         IN  (IF kv.some THEN <<Pair(Trim(kv.v[1]), Trim(kv.v[2]))>> ELSE <<>>)
             \o FilterMapPairs(Tail(pieces))

\* the environment list built from the answer to the environment prompt
ParseEnvironment(env_input) ==
    IF env_input = <<>> THEN <<>>
    ELSE FilterMapPairs(Split(env_input, Comma))

\* the list built from the answer to the ports or volumes prompt
ListOrDefault(answer, default) ==
    IF answer = <<>> THEN <<Word(default)>> ELSE SplitTrimCollect(answer)

EnvAtoms == {"A", Equals, Comma}

\* A=b,x,A=b=c  and an answer with whitespace around key and value
ScenarioEnvLines ==
    {<<"A", Equals, "b", Comma, "x", Comma, "A", Equals, "b", Equals, "c">>,
     <<"A", Space, Equals, Space, "b", Comma, Space, "x">>}

EnvLines == TextsUpTo(EnvAtoms, MaxEnvLen) \cup ScenarioEnvLines

\* one service of the interactive Compose loop, built from its five answers
InteractiveService(name, image, ports, volumes, env_input) ==
    ServiceSpec(name,
                IF image = "" THEN name \o ":latest" ELSE image,
                ListOrDefault(ports, "80:80"),
                <<>>,
                ParseEnvironment(env_input),
                ListOrDefault(volumes, "./data:/data"))

\* select_option returns 1: one iteration of the service loop, ended by the
\* answer to "Add another service?"
ComposeAddService ==
    /\ pc \in {"menu", "compose_loop"}
    /\ Len(service_specs) < MaxInteractiveServices
    /\ choice' = 1
    /\ \E name \in {"web"}, image \in {"", "nginx:1.27"},
          ports \in {<<>>, <<"80:80", Comma, Space, "443:443">>},
          volumes \in {<<>>, <<"./db:/var/lib/db">>}, line \in EnvLines,
          again \in BOOLEAN :
        /\ service_specs' = Append(service_specs,
                InteractiveService(name, image, Prompt(ports), Prompt(volumes),
                                   Prompt(line)))
        /\ env_inputs' = Append(env_inputs, line)
        /\ pc' = IF again /\ Len(service_specs) + 1 < MaxInteractiveServices
                 THEN "compose_loop" ELSE "compose_finish"
    /\ UNCHANGED <<mode, command, args, dockerfile_spec, networks_map,
                   compose_spec, devcontainer_spec, fs, written, rendered,
                   result, failed_at, split_iter, packages_input, output,
                   rendered_text, bakeVars, menu>>

\* the network loop and the output prompt; render docker-compose.yml and
\* write it; Ok(())
ComposeWrite ==
    /\ pc = "compose_finish"
    /\ \E nets \in SUBSET {"app_network"}, out \in {""}, o \in WriteOutcomes :
        LET spec == [services |-> service_specs,
                     networks |-> [n \in nets |-> [driver |-> "bridge"]]]
            r == WriteToFile(fs, written, <<OrDefault(out, ComposeName)>>,
                             RenderCompose(spec), o)
        IN  /\ networks_map' = spec.networks
            /\ compose_spec' = Some(spec)
            /\ output' = <<OrDefault(out, ComposeName)>>
            /\ rendered' = Append(rendered, ComposeName)
            /\ fs' = r.fs
            /\ written' = r.written
            /\ Outcome(r.ok, ComposeName, "done")
    /\ UNCHANGED <<mode, command, choice, args, dockerfile_spec, service_specs,
                   devcontainer_spec, split_iter, packages_input,
                   rendered_text, bakeVars, sessionVars>>

LanguageOptions == <<"Python", "Node.js", "Rust", "Other">>

DbOptions == <<"None", "PostgreSQL", "MySQL", "MongoDB">>

ServiceOptions == <<"None", "Redis", "Elasticsearch">>

\* str::to_lowercase() on the menu labels
ToLowercase(label) ==
    CASE label = "Python" -> "python"
      [] label = "Node.js" -> "node.js"
      [] label = "Rust" -> "rust"
      [] label = "Other" -> "other"
      [] label = "None" -> "none"
      [] label = "PostgreSQL" -> "postgresql"
      [] label = "MySQL" -> "mysql"
      [] label = "MongoDB" -> "mongodb"
      [] label = "Redis" -> "redis"
      [] label = "Elasticsearch" -> "elasticsearch"

\* selected_services.join(",")
RECURSIVE JoinComma(_)
JoinComma(words) ==
    IF words = <<>> THEN <<>>
    ELSE IF Len(words) = 1 THEN <<words[1]>>
    ELSE <<Head(words), Comma>> \o JoinComma(Tail(words))

\* the answers to "Select service:", one per turn of the while loop
ServiceSelections ==
    UNION {[1..k -> 0..(Len(ServiceOptions) - 1)] : k \in 0..MaxSelections}

\* selected_services: the lowercased labels of the answers other than None
RECURSIVE SelectedLabels(_)
SelectedLabels(selections) ==
    IF selections = <<>> THEN <<>>
    ELSE (IF Head(selections) > 0
          THEN <<ToLowercase(ServiceOptions[Head(selections) + 1])>> ELSE <<>>)
         \o SelectedLabels(Tail(selections))

\* the Commands::Init value the Complete Environment session builds
CompleteEnvironmentArgs(name, language_idx, db_idx, selections, output_dir) ==
    [name |-> name,
     language |-> ToLowercase(LanguageOptions[language_idx + 1]),
     database |-> IF db_idx = 0 THEN None
                  ELSE Some(ToLowercase(DbOptions[db_idx + 1])),
     services |-> IF SelectedLabels(selections) = <<>> THEN None
                  ELSE Some(JoinComma(SelectedLabels(selections))),
     output_dir |-> <<OrDefault(output_dir, ".")>>]

\* select_option returns 4: the answers of the Complete Environment session,
\* then Commands::Init { .. }.execute()
CompleteEnvironmentPrompts ==
    /\ pc = "menu"
    /\ choice' = 4
    /\ \E name \in {"myproject", "db"},
          language_idx \in 0..(Len(LanguageOptions) - 1),
          db_idx \in 0..(Len(DbOptions) - 1),
          selections \in ServiceSelections,
          output_dir \in {"", "out"} :
        /\ menu' = [language_idx |-> language_idx, db_idx |-> db_idx]
        /\ args' = CompleteEnvironmentArgs(name, language_idx, db_idx,
                                           selections, output_dir)
    /\ command' = "Init"
    /\ pc' = "execute"
    /\ UNCHANGED <<mode, dockerfile_spec, service_specs, networks_map,
                   compose_spec, devcontainer_spec, fs, written, rendered,
                   result, failed_at, split_iter, packages_input, output,
                   rendered_text, bakeVars, env_inputs>>

Next ==
    \/ ParseOther
    \/ ParseInit
    \/ ExecuteUnreachable
    \/ InitCreateDir
    \/ InitDockerfile
    \/ InitServices
    \/ InitExtraService
    \/ InitComposeWrite
    \/ InitDevcontainer
    \/ MainInteractive
    \/ DockerfilePrompts
    \/ DockerfileWrite
    \/ ParseBake
    \/ BakeAddTarget
    \/ BakeWrite
    \/ ComposeAddService
    \/ ComposeWrite
    \/ CompleteEnvironmentPrompts

Spec == Init /\ [][Next]_vars

-----------------------------------------------------------------------------
(* The orchestration renderer on its own: render_template applied to a     *)
(* DockerComposeSpec drawn from the values of the type                     *)

RenderServiceNames == <<"web", "db", "cache">>

DrawnServices(n) ==
    [name : {RenderServiceNames[n]},
     image : {"nginx:latest"},
     ports : TextsUpTo({"80:80"}, MaxListLen),
     depends_on : TextsUpTo({RenderServiceNames[(n % 3) + 1]}, MaxListLen),
     environment : TextsUpTo({Pair("KEY", "value")}, MaxListLen),
     volumes : TextsUpTo({"./data:/data"}, MaxListLen)]

RECURSIVE DrawnServiceLists(_)
DrawnServiceLists(n) ==
    IF n = 0 THEN {<<>>}
    ELSE {Append(ss, s) : ss \in DrawnServiceLists(n - 1), s \in DrawnServices(n)}

DrawnNetworks ==
    {[n \in names |-> [driver |-> "bridge"]] : names \in SUBSET Range(NetworkOrder)}

DrawnComposeSpecs ==
    {[services |-> ss, networks |-> nets] :
        ss \in UNION {DrawnServiceLists(n) : n \in 1..MaxRenderServices},
        nets \in DrawnNetworks}

RenderInit ==
    /\ pc = "render"
    /\ mode = "none"
    /\ command = "none"
    /\ choice = -1
    /\ args = NoArgs
    /\ dockerfile_spec = None
    /\ service_specs = <<>>
    /\ networks_map = NoNetworks
    /\ \E spec \in DrawnComposeSpecs : compose_spec = Some(spec)
    /\ devcontainer_spec = None
    /\ fs = NoFiles
    /\ written = <<>>
    /\ rendered = <<>>
    /\ result = "running"
    /\ failed_at = "none"
    /\ split_iter = <<>>
    /\ packages_input = <<>>
    /\ output = <<>>
    /\ rendered_text = <<>>
    /\ bake_args = NoBakeArgs
    /\ bake_spec = None
    /\ targets = <<>>
    /\ bake_answers = <<>>
    /\ env_inputs = <<>>
    /\ menu = NoMenu

\* render_template(DOCKER_COMPOSE_TEMPLATE, &spec)
RenderDrawn ==
    /\ pc = "render"
    /\ rendered_text' = RenderCompose(compose_spec.v)
    /\ rendered' = Append(rendered, ComposeName)
    /\ pc' = "rendered"
    /\ UNCHANGED <<mode, command, choice, args, dockerfile_spec, service_specs,
                   networks_map, compose_spec, devcontainer_spec, fs, written,
                   result, failed_at, split_iter, packages_input, output,
                   bakeVars, sessionVars>>

RenderNext == RenderDrawn

RenderSpec == RenderInit /\ [][RenderNext]_vars

-----------------------------------------------------------------------------
(* Properties *)

Services == service_specs

InitRan == command = "Init"

\* the three paths an Init run writes, in the order of the source
ExpectedInitPaths ==
    <<Join(args.output_dir, "Dockerfile"),
      Join(args.output_dir, "docker-compose.yml"),
      Join(args.output_dir, "devcontainer.json")>>

ExpectedInitNames == <<"Dockerfile", "docker-compose.yml", "devcontainer.json">>

IsCompleteFile(path) ==
    /\ path \in DOMAIN fs
    /\ fs[path].kind = "file"
    /\ fs[path].complete

FilePaths == {p \in DOMAIN fs : fs[p].kind = "file"}

\* C1: started with arguments, every subcommand is dispatched to a handler:
\* no dispatch ends in a panic.
C1_DispatchReachesHandler ==
    mode = "args" => result # "panic"

\* C2: in an Init run, the Dockerfile path recorded in the written
\* devcontainer.json, resolved from the directory of that file, designates
\* the file the rendered Dockerfile was written to.
C2_DevcontainerDesignatesDockerfile ==
    (InitRan /\ IsCompleteFile(Join(args.output_dir, "devcontainer.json"))) =>
        LET descriptor == Join(args.output_dir, "devcontainer.json")
            recorded == fs[descriptor].contents[1].text.build_dockerfile
        IN  \E p \in FilePaths :
                /\ Normalize(p) = Resolve(descriptor, recorded)
                /\ p = written[1]
                /\ fs[p].complete
                /\ fs[p].contents = RenderDockerfile(dockerfile_spec.v)

C2_Witness ==
    /\ InitRan
    /\ pc = "done"
    /\ args.output_dir = <<"out", "env">>
    /\ IsCompleteFile(<<"out", "env", "devcontainer.json">>)
    /\ IsCompleteFile(<<"out", "env", "Dockerfile">>)

\* C3 as stated: with a database selector the compose descriptor holds a
\* service whose name is the selector, and the project service depends on
\* that name exactly once; without a selector there is neither.
C3_ServiceNamedAfterSelector ==
    (InitRan /\ compose_spec.some) =>
        LET services == compose_spec.v.services
        IN  IF args.database.some
            THEN /\ \E i \in 2..Len(services) : services[i].name = args.database.v
                 /\ Count(services[1].depends_on, args.database.v) = 1
            ELSE /\ \A i \in 2..Len(services) : services[i].name # "db"
                 /\ Count(services[1].depends_on, "db") = 0

\* C3 amended: with a database selector the compose descriptor holds, as its
\* second service, a service named db that carries the image of the
\* selector's row, and the project service depends on db exactly once;
\* without a selector no service is named db after the project service and
\* the project service has no edge onto db.
C3_DbServiceAndEdge ==
    (InitRan /\ compose_spec.some) =>
        LET services == compose_spec.v.services
        IN  IF args.database.some
            THEN /\ Len(services) >= 2
                 /\ services[2].name = "db"
                 /\ services[2].image = DatabaseRow(args.database.v).image
                 /\ Count(services[1].depends_on, "db") = 1
            ELSE /\ \A i \in 2..Len(services) : services[i].name # "db"
                 /\ Count(services[1].depends_on, "db") = 0

C3_Witness ==
    /\ InitRan
    /\ pc = "done"
    /\ args.database = Some("mysql")
    /\ args.name = "db"
    /\ Len(compose_spec.v.services) = 3

\* C4: the service list built by Init never holds two services of one name.
C4_UniqueServiceNames ==
    InitRan =>
        \A i, j \in 1..Len(Services) :
            i # j => Services[i].name # Services[j].name

\* C5: at every step of an Init run, every dependency name is the name of
\* a service of the list, and the project service's dependency list is
\* exactly the names of the services appended after it, in order.
C5_NoDanglingAndEdges ==
    (InitRan /\ Len(Services) >= 1) =>
        /\ \A i \in 1..Len(Services) :
            \A d \in Range(Services[i].depends_on) :
                \E j \in 1..Len(Services) : Services[j].name = d
        /\ Services[1].depends_on =
                [i \in 1..(Len(Services) - 1) |-> Services[i + 1].name]

C5_Witness ==
    /\ InitRan
    /\ pc = "init_extra"
    /\ split_iter # <<>>
    /\ Len(Services) = 3
    /\ Services[2].name = "db"
    /\ Services[3].name = "elasticsearch"

\* C6: a successful Init run has written exactly the Dockerfile, then
\* docker-compose.yml, then devcontainer.json, each once, all in the output
\* directory, and no docker-bake.hcl.
C6_ThreeFilesInOrder ==
    (InitRan /\ pc = "done") =>
        /\ result = "ok"
        /\ written = ExpectedInitPaths
        /\ rendered = ExpectedInitNames
        /\ FilePaths = Range(ExpectedInitPaths)
        /\ Cardinality(FilePaths) = 3
        /\ \A p \in FilePaths :
            /\ fs[p].complete
            /\ Parent(p) = args.output_dir
            /\ p[Len(p)] # "docker-bake.hcl"

C6_Witness ==
    /\ InitRan
    /\ pc = "done"
    /\ args.database.some
    /\ args.services.some
    /\ Len(Services) = 4
    /\ Len(written) = 3

StepNumber(step) ==
    CASE step = "create_dir" -> 0
      [] step = "Dockerfile" -> 1
      [] step = "docker-compose.yml" -> 2
      [] step = "devcontainer.json" -> 3

\* C7: when step k of an Init run fails, the run has ended with an error,
\* the artifacts after step k are neither rendered nor written, and the
\* artifacts written before step k are complete on disk.
C7_FailureAborts ==
    (InitRan /\ failed_at # "none") =>
        LET k == StepNumber(failed_at)
        IN  /\ pc = "error"
            /\ result = "err"
            /\ written = SubSeq(ExpectedInitPaths, 1, k - 1)
            /\ rendered = SubSeq(ExpectedInitNames, 1, k)
            /\ \A i \in 1..(k - 1) : IsCompleteFile(ExpectedInitPaths[i])
            /\ \A i \in (k + 1)..3 : ExpectedInitPaths[i] \notin DOMAIN fs

C7_Witness ==
    /\ InitRan
    /\ failed_at = "docker-compose.yml"
    /\ pc = "error"
    /\ IsCompleteFile(Join(args.output_dir, "Dockerfile"))
    /\ Join(args.output_dir, "docker-compose.yml") \in DOMAIN fs

HeaderCount(text, kind) ==
    Cardinality({i \in 1..Len(text) : text[i].kind = kind})

\* every header line of the kind is directly followed by an item of its list
HeaderHasItem(text, header, item) ==
    \A i \in 1..Len(text) :
        text[i].kind = header => (i < Len(text) /\ text[i + 1].kind = item)

ServicesWith(services, field) ==
    {i \in 1..Len(services) : services[i][field] # <<>>}

\* C8: in rendered orchestration text there is one depends_on header per
\* service with dependencies and one environment header per service with
\* environment pairs, a networks header exactly when a network is declared,
\* and each of these headers is followed by an entry.
C8_OptionalSections ==
    pc = "rendered" =>
        LET spec == compose_spec.v
        IN  /\ HeaderCount(rendered_text, "depends_on_header") =
                    Cardinality(ServicesWith(spec.services, "depends_on"))
            /\ HeaderCount(rendered_text, "environment_header") =
                    Cardinality(ServicesWith(spec.services, "environment"))
            /\ HeaderCount(rendered_text, "networks_header") =
                    (IF DOMAIN spec.networks # {} THEN 1 ELSE 0)
            /\ HeaderHasItem(rendered_text, "depends_on_header", "depends_on_item")
            /\ HeaderHasItem(rendered_text, "environment_header", "environment_item")
            /\ HeaderHasItem(rendered_text, "networks_header", "network_item")

C8_Witness ==
    /\ pc = "rendered"
    /\ compose_spec.v.services[1].depends_on = <<>>
    /\ compose_spec.v.services[1].environment # <<>>
    /\ DOMAIN compose_spec.v.networks = {}
    /\ HeaderCount(rendered_text, "environment_header") = 1

C10_PackagesNormalized ==
    (choice = 0 /\ dockerfile_spec.some) =>
        /\ dockerfile_spec.v.packages # <<>>
        /\ \A i \in 1..Len(dockerfile_spec.v.packages) :
            dockerfile_spec.v.packages[i] # <<>>


\* the names a Bake request asks targets for
RequestedTargetNames ==
    IF command = "Bake"
    THEN (IF bake_args.targets.some
          THEN SplitTrimCollect(bake_args.targets.v) ELSE <<>>)
    ELSE [i \in 1..Len(bake_answers) |-> <<bake_answers[i].name>>]

\* a Bake request whose run has ended without an I/O error
BakeRequestEnded ==
    /\ command = "Bake" \/ choice = 3
    /\ pc \in {"done", "panicked"}

\* C11: a Bake request ends with one target per requested name, none
\* dropped, each with a non-empty context, a non-empty Dockerfile path and a
\* non-empty tag list.
C11_BakeTargetsComplete ==
    BakeRequestEnded =>
        /\ bake_spec.some
        /\ Len(bake_spec.v.targets) = Len(RequestedTargetNames)
        /\ \A i \in 1..Len(bake_spec.v.targets) :
            /\ bake_spec.v.targets[i].context # ""
            /\ bake_spec.v.targets[i].dockerfile # ""
            /\ bake_spec.v.targets[i].tags # <<>>


\* the positions of the pieces that hold an "="
PiecesWithEquals(pieces) ==
    {i \in 1..Len(pieces) : Equals \in Range(pieces[i])}

\* the j-th smallest member of a set of positions
NthOf(positions, j) ==
    CHOOSE i \in positions : Cardinality({k \in positions : k < i}) = j - 1

\* the position of the first "=" of a piece that holds one
FirstEquals(piece) ==
    CHOOSE e \in 1..Len(piece) :
        piece[e] = Equals /\ \A k \in 1..(e - 1) : piece[k] # Equals

\* C12: the environment list of a service of the interactive Compose loop
\* has one pair per comma-separated piece that holds an "=", in the order of
\* the pieces, equal keys kept; the key is the text before the first "=" of
\* the piece and the value all the text after it (both trimmed); the pieces
\* without "=" leave no trace and no error.
C12_EnvironmentPairs ==
    choice = 1 =>
        \A s \in 1..Len(service_specs) :
            LET pieces == Split(Trim(env_inputs[s]), Comma)
                kept == PiecesWithEquals(pieces)
                env == service_specs[s].environment
            IN  /\ result # "panic"
                /\ Len(env) = Cardinality(kept)
                /\ \A j \in 1..Len(env) :
                    LET piece == pieces[NthOf(kept, j)]
                        e == FirstEquals(piece)
                    IN  /\ env[j][1] = Trim(SubSeq(piece, 1, e - 1))
                        /\ env[j][2] = Trim(SubSeq(piece, e + 1, Len(piece)))

C12_Witness ==
    /\ choice = 1
    /\ pc = "done"
    /\ env_inputs[1] =
        <<"A", Equals, "b", Comma, "x", Comma, "A", Equals, "b", Equals, "c">>
    /\ service_specs[1].environment =
        <<Pair(<<"A">>, <<"b">>), Pair(<<"A">>, <<"b", Equals, "c">>)>>


RecognizedPieces == {<<"redis">>, <<"elasticsearch">>}

IsRecognized(piece) == piece \in RecognizedPieces

\* the recognized selectors of --services, trimmed, in the order given
SelectedServices ==
    IF args.services.some
    THEN SelectSeq(SplitTrimCollect(args.services.v), IsRecognized)
    ELSE <<>>

EnvKeys(service) ==
    [i \in 1..Len(service.environment) |-> service.environment[i][1]]

\* C13: in the compose descriptor of an Init run the first service is the
\* project's (its name, port 8000:8000, volume ./:/app); for postgres,
\* mysql and mongodb the second service carries that database's image and
\* port (postgres:latest 5432:5432 with POSTGRES_USER, POSTGRES_PASSWORD;
\* mysql:latest 3306:3306; mongo:latest 27017:27017) and credentials of its
\* own; the extra services follow in the order they were selected.
C13_DatabaseDefaults ==
    (InitRan /\ compose_spec.some) =>
        LET services == compose_spec.v.services
            first == IF args.database.some THEN 3 ELSE 2
        IN  /\ services[1].name = args.name
            /\ services[1].ports = <<"8000:8000">>
            /\ services[1].volumes = <<"./:/app">>
            /\ (args.database = Some("postgres") =>
                    /\ services[2].image = "postgres:latest"
                    /\ services[2].ports = <<"5432:5432">>
                    /\ EnvKeys(services[2]) = <<"POSTGRES_USER", "POSTGRES_PASSWORD">>)
            /\ (args.database = Some("mysql") =>
                    /\ services[2].image = "mysql:latest"
                    /\ services[2].ports = <<"3306:3306">>
                    /\ EnvKeys(services[2]) # <<>>
                    /\ "POSTGRES_USER" \notin Range(EnvKeys(services[2])))
            /\ (args.database = Some("mongodb") =>
                    /\ services[2].image = "mongo:latest"
                    /\ services[2].ports = <<"27017:27017">>
                    /\ EnvKeys(services[2]) # <<>>
                    /\ "POSTGRES_USER" \notin Range(EnvKeys(services[2])))
            /\ Len(services) = first - 1 + Len(SelectedServices)
            /\ \A i \in 1..Len(SelectedServices) :
                <<services[first - 1 + i].name>> = SelectedServices[i]

C13_Witness ==
    /\ InitRan
    /\ pc = "done"
    /\ args.database = Some("mongodb")
    /\ args.name = "myproject"
    /\ Len(compose_spec.v.services) = 4
    /\ compose_spec.v.services[3].name = "elasticsearch"
    /\ compose_spec.v.services[4].name = "redis"

\* C14: the loop step over an extra-service name that is neither redis nor
\* elasticsearch changes no service and no dependency edge, raises no error
\* and goes on to the next name.
C14_UnrecognizedIgnored ==
    [][(/\ pc = "init_extra"
        /\ split_iter # <<>>
        /\ ~IsRecognized(Trim(Head(split_iter))))
       => (/\ service_specs' = service_specs
           /\ split_iter' = Tail(split_iter)
           /\ pc' = "init_extra"
           /\ result' = result
           /\ failed_at' = failed_at)]_vars

C14_Witness ==
    /\ InitRan
    /\ pc = "done"
    /\ result = "ok"
    /\ args.database.some
    /\ args.services = Some(<<"kafka", Comma, "redis">>)
    /\ Len(Services) = 3
    /\ Services[1].depends_on = <<"db", "redis">>


\* the --language and --database values the menu entries stand for
MenuLanguage == <<"python", "node", "rust", "other">>

MenuDatabase == <<None, Some("postgres"), Some("mysql"), Some("mongodb")>>

\* C15: a Complete Environment session builds the Dockerfile descriptor,
\* the extension list and the database service that an Init request with
\* the selectors of the chosen menu entries builds.
C15_SessionMatchesFlags ==
    (choice = 4 /\ devcontainer_spec.some) =>
        LET language == MenuLanguage[menu.language_idx + 1]
            database == MenuDatabase[menu.db_idx + 1]
            flagged == AddDatabase(<<MainService(args.name)>>, database)
        IN  /\ dockerfile_spec.v = InitDockerfileSpec(language)
            /\ devcontainer_spec.v.customizations.vscode_extensions =
                    LanguageExtensions(language)
            /\ IF database.some
               THEN Len(service_specs) >= 2 /\ service_specs[2] = flagged[2]
               ELSE args.database = None

====
